---- MODULE Spec2Model ----
(***************************************************************************)
(* Model of GoogleImagesScraper (google-images-downloader.py): one run of  *)
(* download_images over the metadata divs of one search-results page,      *)
(* with the output directory, the counter attribute and the per-image      *)
(* download (_download_image).  Strings are sequences of one-character     *)
(* strings so that split('.'), lower(), str() and zfill() are computed as  *)
(* the code computes them.                                                 *)
(***************************************************************************)
EXTENDS Integers, Sequences, FiniteSets, TLC

\* ---------------------------------------------------------------- bounds
MaxCands == 3        \* longest list of rg_meta divs on the page
MaxLimit == 2        \* the small limits are 1..MaxLimit
WideLimit == 10      \* one limit with two decimal digits
MaxExisting == 9     \* largest number of files already in the directory

\* ------------------------------------------------------ pure functions
DigitChar(d) ==
    CASE d = 0 -> "0" [] d = 1 -> "1" [] d = 2 -> "2" [] d = 3 -> "3"
      [] d = 4 -> "4" [] d = 5 -> "5" [] d = 6 -> "6" [] d = 7 -> "7"
      [] d = 8 -> "8" [] OTHER -> "9"

\* str(n) for a non-negative integer: its decimal digits, no leading zero
RECURSIVE str(_)
str(n) == IF n < 10 THEN <<DigitChar(n)>>
          ELSE str(n \div 10) \o <<DigitChar(n % 10)>>

zfill_pad_always(s, width) == [i \in 1..width |-> "0"] \o s

\* s.zfill(width): left-pad with "0" up to width, never truncating
RECURSIVE zfill(_, _)
zfill(s, width) == IF Len(s) >= width THEN s ELSE zfill(<<"0">> \o s, width)

\* c.lower() on the characters that occur in the modelled URLs
lower_char(c) ==
    CASE c = "J" -> "j" [] c = "P" -> "p" [] c = "G" -> "g" [] c = "N" -> "n"
      [] OTHER -> c

lower(s) == [i \in 1..Len(s) |-> lower_char(s[i])]

\* position of the last "." in s, 0 when there is none
LastDot(s) == IF \E i \in 1..Len(s) : s[i] = "."
              THEN CHOOSE i \in 1..Len(s) :
                     s[i] = "." /\ \A j \in (i+1)..Len(s) : s[j] # "."
              ELSE 0

\* image_url.split('.')[-1]
extension_of(image_url) == SubSeq(image_url, LastDot(image_url) + 1, Len(image_url))

\* exts default of __init__
allowed_exts == { <<"j","p","g">>, <<"j","p","e","g">>, <<"p","n","g">>, <<"b","m","p">> }

\* negation of the early-return test of _download_image
accepted(image_url) == lower(extension_of(image_url)) \in allowed_exts

\* prefix and suffix as normalised by __init__ (defaults '')
prefix_arg == <<>>
suffix_arg == <<>>
prefix == IF prefix_arg = <<>> THEN <<>> ELSE prefix_arg \o <<"-">>
suffix == IF suffix_arg = <<>> THEN <<>> ELSE <<"-">> \o suffix_arg

\* the zero-padded numeric component of a file name
numeric_component(n, width) == zfill(str(n), width)

\* '%s%s%s.%s' % (prefix, str(counter + 1).zfill(_zfill), suffix, extension)
local_filename(n, width, extension) ==
    prefix \o numeric_component(n, width) \o suffix \o <<".">> \o extension

\* ------------------------------------------------------------ the inputs
jpg_url  == <<"a", ".", "j", "p", "g">>
PNG_url  == <<"b", ".", "P", "N", "G">>
webp_url == <<"c", ".", "w", "e", "b", "p">>
URLS == {jpg_url, PNG_url, webp_url}

\* What session.get / iter_content do for one image:
\*   ok              - the body is streamed completely
\*   builtin_connect - builtin ConnectionError raised by session.get
\*   builtin_stream  - builtin ConnectionError raised while streaming
\*   other_connect   - another exception class (requests.exceptions.*) from session.get
\*   other_stream    - another exception class raised while streaming
NetOutcomes == {"ok", "builtin_connect", "builtin_stream", "other_connect", "other_stream"}

\* One rg_meta div: its JSON payload decodes and has 'ou' ("valid"), does not
\* decode ("invalid"), or decodes without an 'ou' key ("no_ou").
DivSet ==
    { [json |-> "valid", ou |-> u, net |-> o] : u \in {v \in URLS : accepted(v)}, o \in NetOutcomes }
    \cup { [json |-> "valid", ou |-> u, net |-> "ok"] : u \in {v \in URLS : ~accepted(v)} }
    \cup { [json |-> j, ou |-> <<>>, net |-> "ok"] : j \in {"invalid", "no_ou"} }

Pages == UNION { [1..n -> DivSet] : n \in 0..MaxCands }
Limits == (1..MaxLimit) \cup {WideLimit}
ExistingCounts == {0, 1, MaxExisting}

\* a directory holding files numbered 1..n, written with the same width
InitialDir(n, width) ==
    [name \in { local_filename(i, width, <<"j","p","g">>) : i \in 1..n } |->
        [content |-> "old",
         seq |-> CHOOSE i \in 1..n : local_filename(i, width, <<"j","p","g">>) = name]]

VARIABLES
    pc,                 \* position in download_images
    limit,              \* self.limit
    _zfill,             \* self._zfill
    counter,            \* self.counter
    output_dir_exists,  \* os.path.exists(self.output_dir)
    fs,                 \* the entries of output_dir: name -> [content, seq]
    page,               \* the divs the server will return
    image_divs,         \* soup.findAll(...)
    div_idx,            \* position of the for loop
    images_down,        \* local of download_images
    result,             \* the returned count, -1 while nothing is returned
    seed,               \* history: entries of the directory at run start
    records             \* history: one record per candidate handled

vars == <<pc, limit, _zfill, counter, output_dir_exists, fs, page, image_divs,
          div_idx, images_down, result, seed, records>>

\* ------------------------------------------------------------------ Init
\* the state after __init__ and before download_images runs
Init ==
    /\ pc = "resolve_dir"
    /\ limit \in Limits
    /\ _zfill = Len(str(limit))
    /\ counter = 0
    /\ output_dir_exists \in BOOLEAN
    /\ \E n \in (IF output_dir_exists THEN ExistingCounts ELSE {0}) :
          fs = InitialDir(n, _zfill)
    /\ page \in Pages
    /\ image_divs = <<>>
    /\ div_idx = 1
    /\ images_down = 0
    /\ result = -1
    /\ seed = Cardinality(DOMAIN fs)
    /\ records = <<>>

\* --------------------------------------------------- download_images
\* os.path.exists(self.output_dir) is true: nothing to create
DirAlreadyExists ==
    /\ pc = "resolve_dir"
    /\ output_dir_exists
    /\ pc' = "seed_counter"
    /\ UNCHANGED <<limit, _zfill, counter, output_dir_exists, fs, page, image_divs,
                   div_idx, images_down, result, seed, records>>

\* os.makedirs succeeds
MakedirsOk ==
    /\ pc = "resolve_dir"
    /\ ~output_dir_exists
    /\ output_dir_exists' = TRUE
    /\ pc' = "seed_counter"
    /\ UNCHANGED <<limit, _zfill, counter, fs, page, image_divs,
                   div_idx, images_down, result, seed, records>>

\* os.makedirs raises OSError: caught and logged, the directory is still absent
MakedirsOSError ==
    /\ pc = "resolve_dir"
    /\ ~output_dir_exists
    /\ pc' = "seed_counter"
    /\ UNCHANGED <<limit, _zfill, counter, output_dir_exists, fs, page, image_divs,
                   div_idx, images_down, result, seed, records>>

\* self.counter = len(os.listdir(self.output_dir))
SeedCounter ==
    /\ pc = "seed_counter"
    /\ output_dir_exists
    /\ counter' = Cardinality(DOMAIN fs)
    /\ pc' = "make_soup"
    /\ UNCHANGED <<limit, _zfill, output_dir_exists, fs, page, image_divs,
                   div_idx, images_down, result, seed, records>>

\* os.listdir of a directory that was not created raises out of download_images
ListdirRaises ==
    /\ pc = "seed_counter"
    /\ ~output_dir_exists
    /\ pc' = "raised"
    /\ UNCHANGED <<limit, _zfill, counter, output_dir_exists, fs, page, image_divs,
                   div_idx, images_down, result, seed, records>>

\* _make_soup returns the tree; findAll gives the rg_meta divs in document order
MakeSoupOk ==
    /\ pc = "make_soup"
    /\ image_divs' = page
    /\ pc' = "loop"
    /\ UNCHANGED <<limit, _zfill, counter, output_dir_exists, fs, page,
                   div_idx, images_down, result, seed, records>>

\* session.get of the results page raises: nothing catches it
MakeSoupRaises ==
    /\ pc = "make_soup"
    /\ pc' = "raised"
    /\ UNCHANGED <<limit, _zfill, counter, output_dir_exists, fs, page, image_divs,
                   div_idx, images_down, result, seed, records>>

limit_not_reached_off_by_one == images_down <= limit

\* the test of the loop body: images_down < self.limit
limit_not_reached == images_down < limit

more_divs == div_idx <= Len(image_divs)

\* json.loads(div.contents[0])['ou'] raises (ValueError or KeyError): uncaught
DecodeRaises ==
    /\ pc = "loop" /\ more_divs /\ limit_not_reached
    /\ image_divs[div_idx].json # "valid"
    /\ pc' = "raised"
    /\ UNCHANGED <<limit, _zfill, counter, output_dir_exists, fs, page, image_divs,
                   div_idx, images_down, result, seed, records>>

Record(outcome, n, ext) ==
    [idx |-> div_idx, outcome |-> outcome, seq |-> n,
     num |-> IF n = 0 THEN <<>> ELSE numeric_component(n, _zfill),
     path |-> IF n = 0 THEN <<>> ELSE local_filename(n, _zfill, ext)]

\* the file that open(local_filename, 'wb') and the writes leave behind
Written(name, content, n) == (name :> [content |-> content, seq |-> n]) @@ fs

\* _download_image returns early: extension not allowed; then images_down += 1
DownloadRejected ==
    /\ pc = "loop" /\ more_divs /\ limit_not_reached
    /\ image_divs[div_idx].json = "valid"
    /\ ~accepted(image_divs[div_idx].ou)
    /\ records' = Append(records, Record("Rejected", 0, <<>>))
    /\ images_down' = images_down + 1
    /\ div_idx' = div_idx + 1
    /\ UNCHANGED <<pc, limit, _zfill, counter, output_dir_exists, fs, page, image_divs,
                   result, seed>>

\* _download_image names the file, increments counter, streams the whole body
DownloadOk ==
    /\ pc = "loop" /\ more_divs /\ limit_not_reached
    /\ image_divs[div_idx].json = "valid"
    /\ accepted(image_divs[div_idx].ou)
    /\ image_divs[div_idx].net = "ok"
    /\ LET ext  == extension_of(image_divs[div_idx].ou)
           name == local_filename(counter + 1, _zfill, ext)
       IN /\ fs' = Written(name, "full", counter + 1)
          /\ records' = Append(records, Record("Success", counter + 1, ext))
    /\ counter' = counter + 1
    /\ images_down' = images_down + 1
    /\ div_idx' = div_idx + 1
    /\ UNCHANGED <<pc, limit, _zfill, output_dir_exists, page, image_divs, result, seed>>

\* builtin ConnectionError from session.get or from iter_content: the except
\* clause logs it; open() has run only in the second case and the file stays
DownloadConnectionErrorCaught ==
    /\ pc = "loop" /\ more_divs /\ limit_not_reached
    /\ image_divs[div_idx].json = "valid"
    /\ accepted(image_divs[div_idx].ou)
    /\ image_divs[div_idx].net \in {"builtin_connect", "builtin_stream"}
    /\ LET ext  == extension_of(image_divs[div_idx].ou)
           name == local_filename(counter + 1, _zfill, ext)
       IN /\ fs' = IF image_divs[div_idx].net = "builtin_stream"
                   THEN Written(name, "partial", counter + 1) ELSE fs
          /\ records' = Append(records, Record("Failed", counter + 1, ext))
    /\ counter' = counter + 1
    /\ images_down' = images_down + 1
    /\ div_idx' = div_idx + 1
    /\ UNCHANGED <<pc, limit, _zfill, output_dir_exists, page, image_divs, result, seed>>

\* an exception that is not a builtin ConnectionError leaves _download_image
\* and download_images; images_down += 1 and the return are never reached
DownloadRaises ==
    /\ pc = "loop" /\ more_divs /\ limit_not_reached
    /\ image_divs[div_idx].json = "valid"
    /\ accepted(image_divs[div_idx].ou)
    /\ image_divs[div_idx].net \in {"other_connect", "other_stream"}
    /\ LET ext  == extension_of(image_divs[div_idx].ou)
           name == local_filename(counter + 1, _zfill, ext)
       IN /\ fs' = IF image_divs[div_idx].net = "other_stream"
                   THEN Written(name, "partial", counter + 1) ELSE fs
          /\ records' = Append(records, Record("Failed", counter + 1, ext))
    /\ counter' = counter + 1
    /\ pc' = "raised"
    /\ UNCHANGED <<limit, _zfill, output_dir_exists, page, image_divs, div_idx,
                   images_down, result, seed>>

\* else branch of the loop body: return images_down, elapsed_time
ReturnLimitReached ==
    /\ pc = "loop" /\ more_divs /\ ~limit_not_reached
    /\ result' = images_down
    /\ pc' = "done"
    /\ UNCHANGED <<limit, _zfill, counter, output_dir_exists, fs, page, image_divs,
                   div_idx, images_down, seed, records>>

\* the for loop ran out of divs: return images_down, elapsed_time
ReturnExhausted ==
    /\ pc = "loop" /\ ~more_divs
    /\ result' = images_down
    /\ pc' = "done"
    /\ UNCHANGED <<limit, _zfill, counter, output_dir_exists, fs, page, image_divs,
                   div_idx, images_down, seed, records>>

Next ==
    \/ DirAlreadyExists \/ MakedirsOk \/ MakedirsOSError
    \/ SeedCounter \/ ListdirRaises
    \/ MakeSoupOk \/ MakeSoupRaises
    \/ DecodeRaises \/ DownloadRejected \/ DownloadOk
    \/ DownloadConnectionErrorCaught \/ DownloadRaises
    \/ ReturnLimitReached \/ ReturnExhausted

Spec == Init /\ [][Next]_vars

\* ------------------------------------------------------------ properties
NumWith(outcome) == Cardinality({ i \in 1..Len(records) : records[i].outcome = outcome })
NumSuccess == NumWith("Success")

\* a div that passes the extension filter and whose download completes
Downloadable(d) == d.json = "valid" /\ accepted(d.ou) /\ d.net = "ok"
NumDownloadable == Cardinality({ i \in 1..Len(page) : Downloadable(page[i]) })

Min(a, b) == IF a <= b THEN a ELSE b
Max(a, b) == IF a >= b THEN a ELSE b

\* number of decimal digits of n, by arithmetic
RECURSIVE Digits(_)
Digits(n) == IF n < 10 THEN 1 ELSE 1 + Digits(n \div 10)

Named == { i \in 1..Len(records) : records[i].seq > 0 }

\* C1: in every run the number of images written and the returned count
\* never exceed the configured limit.
C1_SuccessCountWithinLimit ==
    /\ NumSuccess <= limit
    /\ images_down <= limit
    /\ pc = "done" => result <= limit

\* a run that returned exactly limit with divs left over, after a rejected
\* and a failed candidate
C1_Witness ==
    /\ pc = "done" /\ result = limit /\ Len(image_divs) > limit
    /\ NumWith("Rejected") > 0 /\ NumWith("Failed") > 0

\* C2: the returned count equals the number of candidates whose outcome is
\* Success; rejected and failed candidates are not included.
C2_ReturnedCountIsSuccessCount ==
    pc = "done" => result = NumSuccess

\* C3: the limit is checked against successful downloads: the loop stops only
\* when successes equal the limit or the divs are exhausted, and limit
\* downloadable candidates anywhere in the list give exactly limit successes.
C3_LimitCountsSuccesses ==
    pc = "done" =>
        /\ NumSuccess = limit \/ ~more_divs
        /\ NumDownloadable >= limit => NumSuccess = limit

\* C4: with N files numbered 1..N in the directory and limit L, the new files
\* are numbered exactly N+1 .. N+min(L, available accepted candidates) and no
\* file 1..N is overwritten or modified.
C4_RerunContinuesNumbering ==
    pc = "done" =>
        /\ { fs[name].seq : name \in DOMAIN fs \ DOMAIN InitialDir(seed, _zfill) }
              = (seed + 1)..(seed + Min(limit, NumDownloadable))
        /\ \A name \in DOMAIN InitialDir(seed, _zfill) :
              name \in DOMAIN fs /\ fs[name] = InitialDir(seed, _zfill)[name]

\* C5: after a failed download has been handled, no file exists at the path
\* that was assigned to that candidate.
C5_FailedDownloadLeavesNoFile ==
    \A i \in 1..Len(records) :
        records[i].outcome = "Failed" => records[i].path \notin DOMAIN fs

\* C6: a connection/transport failure while downloading one image is never
\* fatal: the run does not end at the candidate whose download failed.
C6_DownloadFailureNotFatal ==
    ~ ( /\ pc = "raised"
        /\ records # <<>>
        /\ records[Len(records)].outcome = "Failed"
        /\ records[Len(records)].idx = div_idx )

\* C7: a metadata element whose payload fails to decode is skipped and the
\* run is not aborted at it.
C7_MalformedEntrySkipped ==
    ~ ( /\ pc = "raised"
        /\ more_divs
        /\ image_divs[div_idx].json # "valid" )

\* C8: no failure path ends the run without a result: every run that ends
\* has handed the caller a count.
C8_AlwaysReturnsResult ==
    /\ pc # "raised"
    /\ pc = "done" => result >= 0

\* C9 (as stated): the width of the zero-padded numeric component of every
\* generated filename equals the number of decimal digits of the limit.
C9_WidthIsDigitsOfLimit ==
    \A i \in Named : Len(records[i].num) = Digits(limit)

\* C9 (amended): the width of the numeric component is the larger of the
\* number of digits of the limit and the number of digits of the sequence
\* number: it equals digits(limit) unless the sequence number is longer.
C9_WidthIsMaxOfDigits ==
    \A i \in Named :
        Len(records[i].num) = Max(Digits(limit), Digits(records[i].seq))

\* a filename was generated for a sequence number with more digits than the limit
C9_Witness ==
    \E i \in Named : Digits(records[i].seq) > Digits(limit)

\* C10: counter equals the seed plus the number of successful downloads so
\* far; rejected and failed candidates leave it unchanged.
C10_CounterCountsSuccesses ==
    pc \in {"loop", "done"} => counter = seed + NumSuccess

====
